---- MODULE Spec2Model ----
(***************************************************************************)
(* node-cache-redis: the Redis connection pool (RedisPool, built on        *)
(* generic-pool and retry-as-promised) and the cached-script bulk delete   *)
(* of RedisStore (deleteAll).                                              *)
(*                                                                         *)
(* Spec       the connection pool: factory.create with its retry counter,  *)
(*            the pool's bookkeeping, acquire / release / destroy and      *)
(*            sendCommand, one action per handler or promise continuation. *)
(* ScriptSpec the deleteAll protocol: deleteScriptPromise, SCRIPT LOAD and *)
(*            EVALSHA, each issued through sendCommand.                    *)
(***************************************************************************)
EXTENDS Integers, Sequences, FiniteSets, TLC

\* ------------------------------------------------------------ bounds
NumCallers == 2        \* concurrent callers of the pool API
MaxPoolSize == 2       \* poolOptions.max
PriorityRange == 2     \* poolOptions.priorityRange
MaxDb == 1             \* database indexes 0..MaxDb
NumDeleters == 2       \* concurrent callers of deleteAll
RedisOptionsDb == 0    \* redisOptions.db, the index a new connection starts on
NumKeys == 5           \* places of the backend's key table
ScanCount == 2         \* places one SCAN step covers (the COUNT argument, scaled down)
NumClients == 4        \* connections factory.destroy is called on

\* ------------------------------------------------------------ program constants
CreateBound == 3       \* if (createAttempts > 3)

Callers == 1..NumCallers
Slots == 1..(MaxPoolSize + 1)   \* one identity more than the pool may hold
Prios == 0..(PriorityRange - 1)
Dbs == 0..MaxDb

Min(a, b) == IF a < b THEN a ELSE b

VARIABLES
    kind,          \* pool._allObjects: slot -> "none" | "conn" | "err" (the CONN_FAILED value)
    available,     \* pool._availableObjects, a FIFO of slots
    owner,         \* pool._resourceLoans: slot -> the caller it is on loan to, 0 if none
    createOps,     \* pool._factoryCreateOperations: createAttempts of each create in flight
    waiting,       \* pool._waitingClientsQueue: priority slot -> FIFO of callers
    call,          \* each caller's current call of acquire or sendCommand
    selected,      \* the database index selected on each connection
    fails,         \* history: failed connection attempts of the create that made the slot
    upAtEnd,       \* history: was the backend reachable when that create settled
    by,            \* history: the acquire call whose _dispense started that create
    opBy,          \* history: the same, for each create in flight
    backendUp,     \* can redis.createClient connect right now
    deleteScriptPromise,  \* RedisStore.deleteScriptPromise: 0 (null) or a promise
    promise,       \* the promises returned by sendCommand('SCRIPT', ['LOAD', ...])
    dcall,         \* each caller's current call of deleteAll
    scriptCached,  \* does the backend's script cache hold the delete script
    loads,         \* history: how many SCRIPT LOAD requests were issued (saturating)
    resets,        \* history: has the catch block reset the handle to null
    noscripts,     \* history: how many NOSCRIPT errors the backend answered (saturating)
    drain,         \* RedisPool.drain: "off", "draining", "clearing" or "cleared"
    store,         \* the backend's keyspace: per place of its table "none" or a key's prefix
    store0,        \* history: the keyspace when the delete script started
    pattern,       \* ARGV[1] of the running delete script
    cursor,        \* the script's local cursor
    deleted,       \* the script's local deleted
    spc,           \* the script: "idle", "running" or "done"
    dstate         \* per connection: "live", or factory.destroy's "ending", "closed", "failed"

poolVars == <<kind, available, owner, createOps, waiting, call, selected,
              fails, upAtEnd, by, opBy, backendUp>>
scriptVars == <<deleteScriptPromise, promise, dcall, scriptCached, loads, resets, noscripts>>
\* what the pool's own actions, and deleteAll's, leave alone
scanVars == <<store, store0, pattern, cursor, deleted, spc>>
restOfPool == <<scriptVars, drain, scanVars, dstate>>
restOfScript == <<poolVars, drain, scanVars, dstate>>
restOfDrain == <<scriptVars, scanVars, dstate>>
restOfScan == <<poolVars, scriptVars, drain, dstate>>
restOfFactory == <<poolVars, scriptVars, drain, scanVars>>
vars == <<poolVars, scriptVars, drain, scanVars, dstate>>

\* ------------------------------------------------------------ generic-pool bookkeeping
\* The pool's own state as one record, so that the pool's methods are operators on it.
PoolState == [kind |-> kind, available |-> available, owner |-> owner,
              createOps |-> createOps, opBy |-> opBy, waiting |-> waiting, call |-> call]

\* behind is history: how many requests were left waiting when this one was served
IdleCall == [op |-> "none", pc |-> "idle", res |-> 0, db |-> 0, rel |-> 0, err |-> "none",
             behind |-> 0]

\* pool._resourceLoans
Loans == {r \in Slots : owner[r] # 0}

\* pool._allObjects.size
AllObjects(S) == {r \in Slots : S.kind[r] # "none"}

\* pool.size: _allObjects.size + _factoryCreateOperations.size
PoolSize(S) == Cardinality(AllObjects(S)) + Len(S.createOps)

\* pool.spareResourceCapacity
SpareCapacity(S) == MaxPoolSize - PoolSize(S)

\* PriorityQueue.length
RECURSIVE QueueLenFrom(_, _)
QueueLenFrom(w, p) == IF p >= PriorityRange THEN 0 ELSE Len(w[p]) + QueueLenFrom(w, p + 1)

QueueLen(w) == QueueLenFrom(w, 0)

\* PriorityQueue.enqueue: an out-of-range priority becomes the lowest one (the last slot)
ClampPriority(p) == IF p < 0 \/ p >= PriorityRange THEN PriorityRange - 1 ELSE p

Enqueue(S, c, p) == [S EXCEPT !.waiting[ClampPriority(p)] = Append(@, c)]

\* a dequeue that serves the last non-empty slot first
LastSlotFirst(w) == CHOOSE p \in Prios : Len(w[p]) > 0 /\ \A q \in Prios : q > p => Len(w[q]) = 0

\* PriorityQueue.dequeue serves the first non-empty slot, slot 0 first
FirstSlot(w) == CHOOSE p \in Prios : Len(w[p]) > 0 /\ \A q \in Prios : q < p => Len(w[q]) = 0

\* a dispatch that leaves the lent resource in the available list
AvailableAfterLoanKept(av) == av

\* _availableObjects.shift(): the lent resource leaves the available list
AvailableAfterLoan(av) == Tail(av)

\* pool._dispatchResource and _dispatchPooledResourceToNextWaitingClient: the first
\* available resource is lent to the next waiting request, whose promise resolves
DispatchResource(S) ==
    IF Len(S.available) < 1 \/ QueueLen(S.waiting) < 1 THEN S
    ELSE LET r == Head(S.available)
             p == FirstSlot(S.waiting)
             c == Head(S.waiting[p])
         IN  [S EXCEPT !.available = AvailableAfterLoan(@),
                       !.waiting[p] = Tail(@),
                       !.owner[r] = c,
                       !.call[c].pc = "granted",
                       !.call[c].res = r,
                       !.call[c].behind = QueueLen(S.waiting) - 1]

RECURSIVE DispatchTimes(_, _)
DispatchTimes(S, n) == IF n <= 0 THEN S ELSE DispatchTimes(DispatchResource(S), n - 1)

\* a _dispense that ignores the pool's spare capacity
NumToCreateUnbounded(S) ==
    QueueLen(S.waiting) - (Len(S.available) + Len(S.createOps))

\* how many creates _dispense starts: min(spareResourceCapacity, resourceShortfall)
NumToCreate(S) ==
    Min(SpareCapacity(S), QueueLen(S.waiting) - (Len(S.available) + Len(S.createOps)))

\* pool._createResource: factory.create() starts with createAttempts = 0
CreateResources(S, n, trig) ==
    IF n <= 0 THEN S
    ELSE [S EXCEPT !.createOps = @ \o [i \in 1..n |-> 0],
                   !.opBy = @ \o [i \in 1..n |-> trig]]

\* pool._dispense (testOnBorrow off): start the creates that are short, then hand out
\* what is available. trig is the acquire call that ran it, 0 otherwise.
Dispense(S, trig) ==
    IF QueueLen(S.waiting) < 1 THEN S
    ELSE LET S1 == CreateResources(S, NumToCreate(S), trig)
         IN  DispatchTimes(S1, Min(Len(S1.available), QueueLen(S1.waiting)))

\* pool.acquire(priority) for the call c: a draining pool rejects ("pool is draining
\* and cannot accept work"), else the request is queued and _dispense runs
PoolAcquire(S, c, p, trig) ==
    IF drain # "off"
    THEN [S EXCEPT !.call[c].pc = "rejected", !.call[c].err = "DRAINING"]
    ELSE Dispense(Enqueue(S, c, p), trig)

\* pool.release(resource): the loan ends, the resource is available again, _dispense
PoolRelease(S, r) ==
    IF S.owner[r] = 0 THEN S    \* "Resource not currently part of this pool": rejected
    ELSE Dispense([S EXCEPT !.owner[r] = 0, !.available = Append(@, r)], 0)

\* pool.destroy(resource): the loan ends, the resource leaves _allObjects,
\* factory.destroy closes it, _dispense
PoolDestroy(S, r) ==
    IF S.owner[r] = 0 THEN S
    ELSE Dispense([S EXCEPT !.owner[r] = 0, !.kind[r] = "none"], 0)

\* the wrapped factory promise resolved: the value becomes a pooled resource, _dispense
AddResource(S, i, r, k) ==
    LET rest == [j \in 1..(Len(S.createOps) - 1) |->
                    IF j < i THEN S.createOps[j] ELSE S.createOps[j + 1]]
        restBy == [j \in 1..(Len(S.opBy) - 1) |->
                    IF j < i THEN S.opBy[j] ELSE S.opBy[j + 1]]
    IN  Dispense([S EXCEPT !.createOps = rest, !.opBy = restBy,
                           !.kind[r] = k, !.available = Append(@, r)], 0)

\* the slot a new resource gets: any identity the pool does not hold
FreeSlot(S) == CHOOSE r \in Slots : S.kind[r] = "none" /\ \A q \in Slots : q < r => S.kind[q] # "none"

Install(S) ==
    /\ kind' = S.kind
    /\ available' = S.available
    /\ owner' = S.owner
    /\ createOps' = S.createOps
    /\ opBy' = S.opBy
    /\ waiting' = S.waiting
    /\ call' = S.call

\* ------------------------------------------------------------ factory.create
\* a bound that is off by one
ExhaustedOffByOne(n) == n >= CreateBound

\* the retry callback's test after createAttempts += 1
Exhausted(n) == n > CreateBound

Deleters == 1..NumDeleters
\* a promise per caller that may still await one, and the one the handle keeps
Promises == 1..(NumDeleters + 1)
LoadCap == NumDeleters + 1
NoscriptCap == 1 + 1

FreePromise == [st |-> "free", code |-> "none"]
IdleDelete == [pc |-> "idle", p |-> 0, err |-> "none"]

Keys == 1..NumKeys
Clients == 1..NumClients
Prefixes == {"a", "b"}
Patterns == {"*", "a*", "b*", "c*"}

\* the store after construction: no pool resource, no script promise
PoolInit ==
    /\ kind = [r \in Slots |-> "none"]
    /\ available = <<>>
    /\ owner = [r \in Slots |-> 0]
    /\ createOps = <<>>
    /\ opBy = <<>>
    /\ waiting = [p \in Prios |-> <<>>]
    /\ call = [c \in Callers |-> IdleCall]
    /\ selected = [r \in Slots |-> 0]
    /\ fails = [r \in Slots |-> 0]
    /\ upAtEnd = [r \in Slots |-> FALSE]
    /\ by = [r \in Slots |-> 0]
    /\ backendUp = TRUE
    /\ deleteScriptPromise = 0
    /\ promise = [p \in Promises |-> FreePromise]
    /\ dcall = [c \in Deleters |-> IdleDelete]
    /\ scriptCached = FALSE
    /\ loads = 0
    /\ resets = FALSE
    /\ noscripts = 0
    /\ drain = "off"

\* no delete script has run
ScanIdle ==
    /\ pattern = "*"
    /\ cursor = 0
    /\ deleted = 0
    /\ spc = "idle"
    /\ store0 = store

Init ==
    /\ PoolInit
    /\ store = [k \in Keys |-> "none"]
    /\ ScanIdle
    /\ dstate = [k \in Clients |-> "live"]

\* an attempt counter that all creates in flight share
AfterFailedAttemptShared(ops, i) == [j \in 1..Len(ops) |-> ops[j] + 1]

\* createAttempts += 1 on the counter of the create it belongs to (a variable of
\* the closure factory.create opens per call)
AfterFailedAttempt(ops, i) == [ops EXCEPT ![i] = @ + 1]

\* One invocation of the callback retry-as-promised runs, for the i-th create in
\* flight, with the settling of the connection attempt it makes:
\* past the bound it resolves with the CONN_FAILED error and makes no attempt;
\* otherwise create(redisOptions) connects (resolve) or errors (reject, retried).
\* The callback runs at most CreateBound + 1 times, within the retry's max of 10.
CreateAttempt(i) ==
    /\ i \in 1..Len(createOps)
    /\ LET n == createOps[i] + 1
       IN  IF Exhausted(n) \/ backendUp
           THEN /\ \E r \in Slots : kind[r] = "none"
                /\ LET r == FreeSlot(PoolState)
                       k == IF Exhausted(n) THEN "err" ELSE "conn"
                   IN  /\ Install(AddResource(PoolState, i, r, k))
                       /\ selected' = [selected EXCEPT ![r] = IF k = "conn" THEN RedisOptionsDb ELSE 0]
                       /\ fails' = [fails EXCEPT ![r] = createOps[i]]
                       /\ upAtEnd' = [upAtEnd EXCEPT ![r] = backendUp /\ k = "err"]
                       /\ by' = [by EXCEPT ![r] = IF k = "err" THEN opBy[i] ELSE 0]
           ELSE /\ createOps' = AfterFailedAttempt(createOps, i)
                /\ UNCHANGED <<kind, available, owner, opBy, waiting, call, selected,
                               fails, upAtEnd, by>>
    /\ UNCHANGED <<backendUp, restOfPool>>

\* the backend becomes unreachable, or reachable again
ToggleBackend ==
    /\ backendUp' = ~backendUp
    /\ UNCHANGED <<kind, available, owner, createOps, opBy, waiting, call, selected,
                   fails, upAtEnd, by, restOfPool>>

\* ------------------------------------------------------------ RedisPool.acquire
CanStart(c) == call[c].pc \in {"idle", "resolved", "rejected"}

\* acquire(priority, db) up to its await: pool.acquire(priority) queues the request
\* and runs _dispense
AcquireStart(c, priority, db) ==
    /\ CanStart(c)
    /\ LET S0 == [PoolState EXCEPT !.call[c] =
                    [IdleCall EXCEPT !.op = "acquire", !.pc = "waiting", !.db = db]]
       IN  Install(PoolAcquire(S0, c, priority, c))
    /\ UNCHANGED <<selected, fails, upAtEnd, by, backendUp, restOfPool>>

\* acquire after its await: an Error is thrown, a db is selected, or the client returned
\* an acquire without the instanceof Error test
AfterPoolAcquireUnchecked(cl, k) ==
    IF cl.db # 0 THEN [cl EXCEPT !.pc = "selecting"] ELSE [cl EXCEPT !.pc = "holding"]

AfterPoolAcquire(cl, k) ==
    IF k = "err"
    THEN [cl EXCEPT !.pc = "rejected", !.err = "CONN_FAILED"]    \* throw client
    ELSE IF cl.db # 0
         THEN [cl EXCEPT !.pc = "selecting"]                     \* selectDB(client, db)
         ELSE [cl EXCEPT !.pc = "holding"]                       \* return client

AcquireContinue(c) ==
    /\ call[c].op = "acquire" /\ call[c].pc = "granted"
    /\ call' = [call EXCEPT ![c] = AfterPoolAcquire(@, kind[call[c].res])]
    /\ UNCHANGED <<kind, available, owner, createOps, opBy, waiting, selected,
                   fails, upAtEnd, by, backendUp, restOfPool>>

\* selectDB's callback: reject(err) on an error, else resolve(client)
SelectReply(c, ok) ==
    /\ call[c].pc = "selecting"
    /\ IF ok
       THEN /\ selected' = [selected EXCEPT ![call[c].res] = call[c].db]
            /\ call' = [call EXCEPT ![c].pc = "holding"]
       ELSE /\ selected' = selected
            /\ call' = [call EXCEPT ![c].pc = "rejected", ![c].db = 0,
                                    ![c].err = "SELECT_ERROR"]
    /\ UNCHANGED <<kind, available, owner, createOps, opBy, waiting,
                   fails, upAtEnd, by, backendUp, restOfPool>>

\* RedisPool.release(client) by the caller that acquire returned the client to
Release(c) ==
    /\ call[c].pc = "holding"
    /\ Install(PoolRelease([PoolState EXCEPT !.call[c] = IdleCall], call[c].res))
    /\ UNCHANGED <<selected, fails, upAtEnd, by, backendUp, restOfPool>>

\* RedisPool.destroy(client) by the caller that acquire returned the client to
Destroy(c) ==
    /\ call[c].pc = "holding"
    /\ Install(PoolDestroy([PoolState EXCEPT !.call[c] = IdleCall], call[c].res))
    /\ selected' = [selected EXCEPT ![call[c].res] = 0]
    /\ fails' = [fails EXCEPT ![call[c].res] = 0]
    /\ upAtEnd' = [upAtEnd EXCEPT ![call[c].res] = FALSE]
    /\ by' = [by EXCEPT ![call[c].res] = 0]
    /\ UNCHANGED <<backendUp, restOfPool>>

\* ------------------------------------------------------------ RedisPool.sendCommand
\* sendCommand up to its first await: this.pool.acquire(priorityRange || 1, db)
SendCommandStart(c) ==
    /\ CanStart(c)
    /\ LET S0 == [PoolState EXCEPT !.call[c] =
                    [IdleCall EXCEPT !.op = "sendCommand", !.pc = "waiting"]]
       IN  Install(PoolAcquire(S0, c, PriorityRange, 0))
    /\ UNCHANGED <<selected, fails, upAtEnd, by, backendUp, restOfPool>>

\* sendCommand after the acquire: util.promisify(conn.send_command) throws a
\* TypeError on the CONN_FAILED value (outside the try); else the command is sent
SendCommandContinue(c) ==
    /\ call[c].op = "sendCommand" /\ call[c].pc = "granted"
    /\ call' = [call EXCEPT ![c] =
                  IF kind[call[c].res] = "err"
                  THEN [@ EXCEPT !.pc = "rejected", !.err = "TypeError"]
                  ELSE [@ EXCEPT !.pc = "sending"]]
    /\ UNCHANGED <<kind, available, owner, createOps, opBy, waiting, selected,
                   fails, upAtEnd, by, backendUp, restOfPool>>

\* a sendCommand that releases on the success path only
ReleaseOnSuccessOnly(S, c, ok) ==
    IF ok THEN PoolRelease([S EXCEPT !.call[c].rel = @ + 1], S.call[c].res) ELSE S

\* what sendCommand does with the connection when the command has settled
ReleaseOnReply(S, c, ok) ==
    PoolRelease([S EXCEPT !.call[c].rel = @ + 1], S.call[c].res)

\* the command's reply or error: release, then resolve or throw
CommandReply(c, ok) ==
    /\ call[c].pc = "sending"
    /\ LET S0 == [PoolState EXCEPT !.call[c].pc = IF ok THEN "resolved" ELSE "rejected",
                                   !.call[c].err = IF ok THEN "none" ELSE "CMD_ERROR"]
       IN  Install(ReleaseOnReply(S0, c, ok))
    /\ UNCHANGED <<selected, fails, upAtEnd, by, backendUp, restOfPool>>

Next ==
    \/ \E i \in 1..MaxPoolSize : CreateAttempt(i)
    \/ ToggleBackend
    \/ \E c \in Callers, p \in Prios, d \in Dbs : AcquireStart(c, p, d)
    \/ \E c \in Callers : AcquireContinue(c)
    \/ \E c \in Callers, ok \in BOOLEAN : SelectReply(c, ok)
    \/ \E c \in Callers : Release(c)
    \/ \E c \in Callers : Destroy(c)
    \/ \E c \in Callers : SendCommandStart(c)
    \/ \E c \in Callers : SendCommandContinue(c)
    \/ \E c \in Callers, ok \in BOOLEAN : CommandReply(c, ok)

Spec == Init /\ [][Next]_vars

\* ------------------------------------------------------------ RedisPool.drain
\* drain() up to its await: pool.drain() sets _draining
DrainStart ==
    /\ drain = "off"
    /\ drain' = "draining"
    /\ UNCHANGED <<poolVars, restOfDrain>>

\* pool.clear() once no create is in flight: _destroy on every available resource
ClearAvailable ==
    /\ kind' = [r \in Slots |-> IF \E i \in 1..Len(available) : available[i] = r
                                THEN "none" ELSE kind[r]]
    /\ available' = <<>>
    /\ selected' = [r \in Slots |-> IF kind'[r] = "none" THEN 0 ELSE selected[r]]
    /\ fails' = [r \in Slots |-> IF kind'[r] = "none" THEN 0 ELSE fails[r]]
    /\ upAtEnd' = [r \in Slots |-> kind'[r] # "none" /\ upAtEnd[r]]
    /\ by' = [r \in Slots |-> IF kind'[r] = "none" THEN 0 ELSE by[r]]

\* pool.drain() resolves when the waiting requests have settled and the loans have
\* been returned; drain() then calls pool.clear() without awaiting it and resolves.
\* clear() destroys the available resources at once if no create is in flight, else
\* after the creates in flight have settled.
DrainSettle ==
    /\ drain = "draining"
    /\ QueueLen(waiting) = 0 /\ Loans = {}
    /\ IF createOps = <<>>
       THEN drain' = "cleared" /\ ClearAvailable
       ELSE drain' = "clearing" /\ UNCHANGED <<kind, available, selected, fails, upAtEnd, by>>
    /\ UNCHANGED <<owner, createOps, opBy, waiting, call, backendUp, restOfDrain>>

\* the continuation of clear() after the creates that were in flight
ClearContinue ==
    /\ drain = "clearing"
    /\ createOps = <<>>
    /\ drain' = "cleared"
    /\ ClearAvailable
    /\ UNCHANGED <<owner, createOps, opBy, waiting, call, backendUp, restOfDrain>>

DrainNext ==
    \/ Next
    \/ DrainStart
    \/ DrainSettle
    \/ ClearContinue

DrainSpec == Init /\ [][DrainNext]_vars

\* ------------------------------------------------------------ RedisStore.deleteAll
\* A promise nobody can reach any more (settled, not the handle, awaited by no call)
\* is forgotten, so that its identity can be used again.
Reachable(h, d, p) == h = p \/ \E c \in Deleters : d[c].pc = "awaitLoad" /\ d[c].p = p

Collect(pr, h, d) ==
    [p \in Promises |-> IF pr[p].st \in {"resolved", "rejected"} /\ ~Reachable(h, d, p)
                        THEN FreePromise ELSE pr[p]]

NewPromise(pr) == CHOOSE p \in Promises : pr[p].st = "free" /\ \A q \in Promises : q < p => pr[q].st # "free"

\* a _loadDeleteAllScript that loads on every call
MustLoadAlways(h) == TRUE

\* _loadDeleteAllScript's test: is a SCRIPT LOAD to be sent
MustLoad(h) == h = 0

\* _loadDeleteAllScript: with no promise kept, sendCommand('SCRIPT', ['LOAD', script])
\* and keep its promise; return the kept promise.
\* Yields the handle, the promises and the count of loads after the call.
LoadDeleteAllScript(h, pr, n) ==
    IF MustLoad(h)
    THEN LET np == NewPromise(pr)
         IN  [h |-> np, pr |-> [pr EXCEPT ![np] = [st |-> "pending", code |-> "none"]],
              n |-> Min(n + 1, LoadCap)]
    ELSE [h |-> h, pr |-> pr, n |-> n]

\* what the catch block of _executeDeleteAll does to the handle for an error code
HandleAfterLoadError(h, code) == IF code = "NOSCRIPT" THEN 0 ELSE h

\* deleteAll(pattern): _executeDeleteAll up to its await of _loadDeleteAllScript()
DeleteAll(c) ==
    /\ dcall[c].pc \in {"idle", "resolved", "rejected"}
    /\ \E p \in Promises : promise[p].st = "free"
    /\ LET L == LoadDeleteAllScript(deleteScriptPromise, promise, loads)
           d == [dcall EXCEPT ![c] = [pc |-> "awaitLoad", p |-> L.h, err |-> "none"]]
       IN  /\ deleteScriptPromise' = L.h
           /\ loads' = L.n
           /\ dcall' = d
           /\ promise' = Collect(L.pr, L.h, d)
    /\ UNCHANGED <<scriptCached, resets, noscripts, restOfScript>>

\* the sendCommand('SCRIPT', ['LOAD', ...]) behind promise p settles: it resolves with
\* the sha1, or throws the command's (or the connection's) error
LoadReply(p, outcome) ==
    /\ promise[p].st = "pending"
    /\ promise' = Collect(
          [promise EXCEPT ![p] = IF outcome = "ok"
                                 THEN [st |-> "resolved", code |-> "none"]
                                 ELSE [st |-> "rejected", code |-> outcome]],
          deleteScriptPromise, dcall)
    /\ scriptCached' = (scriptCached \/ outcome = "ok")
    /\ noscripts' = IF outcome = "NOSCRIPT" THEN Min(noscripts + 1, NoscriptCap) ELSE noscripts
    /\ UNCHANGED <<deleteScriptPromise, dcall, loads, resets, restOfScript>>

\* _executeDeleteAll after its await: with the sha1 it sends EVALSHA; in the catch
\* block a NOSCRIPT error resets the handle and calls _executeDeleteAll again (up to
\* that call's await), any other error is thrown
AfterLoad(c) ==
    /\ dcall[c].pc = "awaitLoad"
    /\ promise[dcall[c].p].st \in {"resolved", "rejected"}
    /\ IF promise[dcall[c].p].st = "resolved"
       THEN /\ dcall' = [dcall EXCEPT ![c].pc = "evalsha"]
            /\ promise' = Collect(promise, deleteScriptPromise, dcall')
            /\ UNCHANGED <<deleteScriptPromise, loads, resets>>
       ELSE LET code == promise[dcall[c].p].code
                h0 == HandleAfterLoadError(deleteScriptPromise, code)
            IN  IF code = "NOSCRIPT"
                THEN LET pr0 == Collect(promise, h0, [dcall EXCEPT ![c].pc = "idle"])
                         L == LoadDeleteAllScript(h0, pr0, loads)
                         d == [dcall EXCEPT ![c].p = L.h]
                     IN  /\ deleteScriptPromise' = L.h
                         /\ loads' = L.n
                         /\ dcall' = d
                         /\ promise' = Collect(L.pr, L.h, d)
                         /\ resets' = TRUE
                ELSE /\ dcall' = [dcall EXCEPT ![c].pc = "rejected", ![c].err = code]
                     /\ deleteScriptPromise' = h0
                     /\ promise' = Collect(promise, h0, dcall')
                     /\ UNCHANGED <<loads, resets>>
    /\ UNCHANGED <<scriptCached, noscripts, restOfScript>>

\* an EVALSHA whose error drops the cached promise
HandleAfterEvalErrorReset(h, outcome) == IF outcome = "ok" THEN h ELSE 0

\* what an EVALSHA outcome does to the handle: the call is returned outside the try
\* block, so nothing
HandleAfterEvalError(h, outcome) == h

\* the sendCommand('EVALSHA', [sha1, 0, pattern, 1000]) a call returns settles: the
\* call resolves with the count or rejects with the error, outside the try block.
\* A backend that does not hold the script answers NOSCRIPT.
EvalReply(c, outcome) ==
    /\ dcall[c].pc = "evalsha"
    /\ outcome = "NOSCRIPT" <=> (~scriptCached /\ outcome # "OTHER")
    /\ dcall' = [dcall EXCEPT ![c].pc = IF outcome = "ok" THEN "resolved" ELSE "rejected",
                              ![c].err = IF outcome = "ok" THEN "none" ELSE outcome]
    /\ noscripts' = IF outcome = "NOSCRIPT" THEN Min(noscripts + 1, NoscriptCap) ELSE noscripts
    /\ deleteScriptPromise' = HandleAfterEvalError(deleteScriptPromise, outcome)
    /\ UNCHANGED <<promise, scriptCached, loads, resets, restOfScript>>

\* the backend loses its script cache (restart, SCRIPT FLUSH)
ScriptFlush ==
    /\ scriptCached
    /\ scriptCached' = FALSE
    /\ UNCHANGED <<deleteScriptPromise, promise, dcall, loads, resets, noscripts, restOfScript>>

Outcomes == {"ok", "NOSCRIPT", "OTHER"}

ScriptNext ==
    \/ \E c \in Deleters : DeleteAll(c)
    \/ \E p \in Promises, o \in Outcomes : LoadReply(p, o)
    \/ \E c \in Deleters : AfterLoad(c)
    \/ \E c \in Deleters, o \in Outcomes : EvalReply(c, o)
    \/ ScriptFlush

ScriptSpec == Init /\ [][ScriptNext]_vars

\* every reply arrives and every continuation runs: the event loop starves none
FairScriptSpec ==
    /\ ScriptSpec
    /\ \A p \in Promises : WF_vars(\E o \in Outcomes : LoadReply(p, o))
    /\ \A c \in Deleters : WF_vars(AfterLoad(c))
    /\ \A c \in Deleters : WF_vars(\E o \in Outcomes : EvalReply(c, o))

\* ------------------------------------------------------------ the delete script
\* glob match of a key with the given prefix against ARGV[1]
Matches(pat, prefix) ==
    \/ pat = "*"
    \/ pat = "a*" /\ prefix = "a"
    \/ pat = "b*" /\ prefix = "b"

\* the places of the key table one SCAN step covers from cursor cur
Covered(cur) == {k \in Keys : k > cur /\ k <= cur + ScanCount}

\* the cursor SCAN returns: "0" when the table has been walked
NextCursor(cur) == IF cur + ScanCount >= NumKeys THEN 0 ELSE cur + ScanCount

RECURSIVE InOrder(_)
InOrder(S) == IF S = {} THEN <<>>
              ELSE LET k == CHOOSE x \in S : \A y \in S : x <= y
                   IN  <<k>> \o InOrder(S \ {k})

\* result[2] of SCAN cursor match ARGV[1] count ARGV[2]: the matching keys present in
\* the covered places, possibly none, each possibly returned twice
ScanKeys(st, cur, pat, twice) ==
    LET ks == InOrder({k \in Covered(cur) : st[k] # "none" /\ Matches(pat, st[k])})
    IN  IF twice THEN ks \o ks ELSE ks

\* an UNLINK that counts a key whether or not it was there
UnlinkReplyAlwaysOne(st, k) == 1

\* the reply of UNLINK key: the number of keys that were removed
UnlinkReply(st, k) == IF st[k] # "none" THEN 1 ELSE 0

\* for i, key in ipairs(keys) do deleted = deleted + redis.call("UNLINK", key) end
RECURSIVE UnlinkAll(_, _, _)
UnlinkAll(st, ks, n) ==
    IF ks = <<>> THEN [store |-> st, deleted |-> n]
    ELSE UnlinkAll([st EXCEPT ![Head(ks)] = "none"], Tail(ks), n + UnlinkReply(st, Head(ks)))

\* EVALSHA sha1 0 pattern 1000 starts the script: cursor = "0", deleted = 0
ScriptStart(pat) ==
    /\ spc \in {"idle", "done"}
    /\ spc' = "running"
    /\ pattern' = pat
    /\ cursor' = 0
    /\ deleted' = 0
    /\ store0' = store
    /\ UNCHANGED <<store, restOfScan>>

\* one pass of the repeat loop: SCAN, UNLINK of every key returned, the test of cursor
ScanStep(twice) ==
    /\ spc = "running"
    /\ LET R == UnlinkAll(store, ScanKeys(store, cursor, pattern, twice), deleted)
       IN  /\ store' = R.store
           /\ deleted' = R.deleted
    /\ cursor' = NextCursor(cursor)
    /\ spc' = IF cursor' = 0 THEN "done" ELSE "running"
    /\ UNCHANGED <<store0, pattern, restOfScan>>

\* any keyspace, before any script has run
ScanInit ==
    /\ PoolInit
    /\ store \in [Keys -> Prefixes \cup {"none"}]
    /\ ScanIdle
    /\ dstate = [k \in Clients |-> "live"]

ScanNext ==
    \/ \E pat \in Patterns : ScriptStart(pat)
    \/ \E twice \in BOOLEAN : ScanStep(twice)

ScanSpec == ScanInit /\ [][ScanNext]_vars

\* the script runs to its end once started (Redis runs it without interruption)
FairScanSpec == ScanSpec /\ WF_vars(\E twice \in BOOLEAN : ScanStep(twice))

\* ------------------------------------------------------------ factory.destroy
\* destroy(client): client.end(true, () => resolve()) registers the callback that
\* resolves the promise; if end throws, the catch block logs and the promise stays
\* pending
FactoryDestroy(k, throws) ==
    /\ dstate[k] = "live"
    /\ dstate' = [dstate EXCEPT ![k] = IF throws THEN "failed" ELSE "ending"]
    /\ UNCHANGED restOfFactory

\* the callback given to client.end runs: resolve()
EndCallback(k) ==
    /\ dstate[k] = "ending"
    /\ dstate' = [dstate EXCEPT ![k] = "closed"]
    /\ UNCHANGED restOfFactory

\* factory.create makes a connection again in the place of a closed one
FactoryCreate(k) ==
    /\ dstate[k] = "closed"
    /\ dstate' = [dstate EXCEPT ![k] = "live"]
    /\ UNCHANGED restOfFactory

FactoryNext ==
    \/ \E k \in Clients, throws \in BOOLEAN : FactoryDestroy(k, throws)
    \/ \E k \in Clients : EndCallback(k)
    \/ \E k \in Clients : FactoryCreate(k)

FactorySpec == Init /\ [][FactoryNext]_vars

\* a callback that was registered is called
FairFactorySpec == FactorySpec /\ \A k \in Clients : WF_vars(EndCallback(k))

\* ============================================================ claims
Settled(cl) == cl.pc \in {"resolved", "rejected"}
Active(cl) == cl.pc \in {"granted", "selecting", "sending", "holding"}

\* C1: a sendCommand call that was handed a live connection keeps it on loan while
\* its command is in flight and has released it exactly once when it has resolved or
\* rejected, on the success path and on the failure path: no connection stays
\* checked out by a settled sendCommand call.
C1_ReleasedExactlyOnce ==
    \A c \in Callers :
        call[c].op = "sendCommand" =>
            /\ call[c].pc = "sending" => call[c].rel = 0 /\ owner[call[c].res] = c
            /\ (Settled(call[c]) /\ call[c].err # "TypeError") =>
                   call[c].rel = 1 /\ owner[call[c].res] # c

C1_Witness ==
    \E c1, c2 \in Callers :
        /\ call[c1].op = "sendCommand" /\ call[c1].pc = "rejected"
        /\ call[c1].err = "CMD_ERROR" /\ call[c1].rel = 1
        /\ call[c2].op = "sendCommand" /\ call[c2].pc = "resolved" /\ call[c2].rel = 1
        /\ Loans = {}

\* C2: the resources on loan, the live connections and the pool's size (resources
\* held plus creates in flight) never exceed poolOptions.max.
C2_NeverAboveMax ==
    /\ Cardinality(Loans) <= MaxPoolSize
    /\ Cardinality({r \in Slots : kind[r] = "conn"}) <= MaxPoolSize
    /\ PoolSize(PoolState) <= MaxPoolSize

C2_Witness ==
    /\ Cardinality(Loans) = MaxPoolSize
    /\ \A r \in Loans : kind[r] = "conn"
    /\ \E c \in Callers : call[c].pc = "waiting"

\* what acquire made of the resource r that caller c still has on loan
Handed(c, r) ==
    /\ call[c].op = "acquire" /\ call[c].res = r /\ r # 0
    /\ call[c].pc \in {"selecting", "holding", "rejected"}

\* C3 as stated: a create whose attempts 1, 2 and 3 failed and whose 4th invocation
\* found the backend reachable hands the acquire caller a live connection.
C3_FourthAttemptConnects ==
    \A c \in Callers : \A r \in Slots :
        (Handed(c, r) /\ owner[r] = c /\ fails[r] = CreateBound /\ upAtEnd[r]) =>
            kind[r] = "conn" /\ call[c].err # "CONN_FAILED"

\* C3 as amended: a create whose attempts 1 and 2 failed and whose 3rd attempt
\* connected hands the acquire caller a live connection and no connection error.
C3_ThirdAttemptConnects ==
    \A c \in Callers : \A r \in Slots :
        (Handed(c, r) /\ owner[r] = c /\ fails[r] = CreateBound - 1) =>
            /\ kind[r] = "conn"
            /\ call[c].err # "CONN_FAILED"
            /\ call[c].pc = "rejected" => call[c].err = "SELECT_ERROR"

C3_Witness ==
    \E c \in Callers :
        /\ call[c].op = "acquire" /\ call[c].pc = "holding"
        /\ owner[call[c].res] = c /\ fails[call[c].res] = CreateBound - 1

\* C4 as stated: the CONN_FAILED value of a create goes to the acquire call whose
\* request started that create, which is rejected with it.
C4_TriggeringCallerRejected ==
    \A r \in Slots :
        (kind[r] = "err" /\ by[r] # 0) =>
            /\ owner[r] = by[r]
            /\ call[by[r]].res = r =>
                  /\ call[by[r]].pc \in {"granted", "rejected"}
                  /\ call[by[r]].pc = "rejected" => call[by[r]].err = "CONN_FAILED"

\* C4 as amended: an exhausted create resolves with the CONN_FAILED value (it is a
\* resource of the pool), and the acquire call the pool hands that value to is
\* rejected with exactly that error and never holds it as a connection.
C4_HandedErrorIsRejected ==
    /\ \A r \in Slots : kind[r] = "err" <=> (kind[r] # "none" /\ fails[r] = CreateBound)
    /\ \A c \in Callers :
          (call[c].op = "acquire" /\ call[c].res # 0 /\ owner[call[c].res] = c
              /\ kind[call[c].res] = "err") =>
                 /\ call[c].pc \in {"granted", "rejected"}
                 /\ call[c].pc = "rejected" => call[c].err = "CONN_FAILED"

C4_Witness ==
    \E c \in Callers :
        /\ call[c].op = "acquire" /\ call[c].pc = "rejected" /\ call[c].err = "CONN_FAILED"
        /\ kind[call[c].res] = "err" /\ owner[call[c].res] = c

\* a loan whose caller has settled: nobody is left to release or destroy it
Orphaned(r) == owner[r] # 0 /\ ~\E c \in Callers : call[c].res = r /\ Active(call[c])

\* C5: with the backend reachable, a waiting acquire is never left with every slot of
\* the pool taken by the error value of an exhausted create whose error has already
\* been reported (nothing available, nothing being created, nothing to be released).
C5_FailedCreateFreesItsSlot ==
    ~ /\ backendUp
      /\ \E c \in Callers : call[c].pc = "waiting"
      /\ available = <<>> /\ createOps = <<>>
      /\ Cardinality(AllObjects(PoolState)) = MaxPoolSize
      /\ \A r \in AllObjects(PoolState) : kind[r] = "err" /\ Orphaned(r)

\* ------------------------------------------------------------ deleteAll claims
Pending == {p \in Promises : promise[p].st = "pending"}

\* C6: a deleteAll call is not rejected with NOSCRIPT when the backend answered
\* NOSCRIPT once only: the handle is reset and the operation retried.
C6_NoscriptIsRecovered ==
    \A c \in Deleters :
        (dcall[c].pc = "rejected" /\ dcall[c].err = "NOSCRIPT") => noscripts > 1

\* C7: a failed load is not kept: once the calls that awaited it have continued, the
\* handle does not hold a rejected promise.
C7_FailedLoadNotCached ==
    (deleteScriptPromise # 0 /\ promise[deleteScriptPromise].st = "rejected") =>
        \E c \in Deleters : dcall[c].pc = "awaitLoad" /\ dcall[c].p = deleteScriptPromise

\* C8: until the catch block resets the handle, the deleteAll calls have issued
\* exactly one SCRIPT LOAD, and each of them awaits, then uses, the promise the
\* handle keeps.
C8_OneLoadShared ==
    resets = FALSE =>
        /\ loads <= 1
        /\ \A c \in Deleters :
              dcall[c].pc \in {"awaitLoad", "evalsha"} =>
                  loads = 1 /\ dcall[c].p = deleteScriptPromise

C8_Witness ==
    /\ resets = FALSE /\ loads = 1
    /\ \A c \in Deleters : dcall[c].pc = "evalsha" /\ dcall[c].p = deleteScriptPromise

\* C9: at most one SCRIPT LOAD is in flight, and it is the one the handle keeps.
C9_AtMostOneLoadInFlight ==
    /\ Cardinality(Pending) <= 1
    /\ \A p \in Pending : p = deleteScriptPromise

\* C10: every deleteAll call settles.
C10_DeleteAllSettles ==
    \A c \in Deleters : (dcall[c].pc = "awaitLoad") ~> (dcall[c].pc \in {"resolved", "rejected"})

\* C11: an EVALSHA of deleteAll that fails with an error other than NOSCRIPT rejects
\* the call with that error in the same step, sends no SCRIPT LOAD and no second
\* EVALSHA, and leaves the handle and the promise it keeps (the resolved load with
\* its sha1) as they were.
C11_OtherEvalErrorPropagates ==
    [][\A c \in Deleters :
          (dcall[c].pc = "evalsha" /\ dcall'[c].pc # "evalsha" /\ dcall'[c].err = "OTHER") =>
              /\ dcall'[c].pc = "rejected"
              /\ deleteScriptPromise' = deleteScriptPromise
              /\ promise' = promise
              /\ loads' = loads]_vars

C11_Witness ==
    \E c \in Deleters :
        /\ dcall[c].pc = "rejected" /\ dcall[c].err = "OTHER"
        /\ deleteScriptPromise # 0 /\ dcall[c].p = deleteScriptPromise
        /\ promise[deleteScriptPromise].st = "resolved"

\* C12: an acquire rejected with the error of its SELECT does not keep the
\* connection on loan: the connection is back in the pool's available list or lent
\* to another call.
C12_FailedSelectReturnsConnection ==
    \A c \in Callers :
        (call[c].op = "acquire" /\ call[c].pc = "rejected" /\ call[c].err = "SELECT_ERROR") =>
            owner[call[c].res] # c

\* C13: a connection on which a command is sent is on the index its operation asked
\* for: redisOptions.db for sendCommand, the db argument for the holder of an
\* acquired client.
C13_SelectedMatchesRequested ==
    \A c \in Callers :
        /\ call[c].pc = "sending" => selected[call[c].res] = RedisOptionsDb
        /\ (call[c].op = "acquire" /\ call[c].pc = "holding") =>
               selected[call[c].res] = call[c].db

\* the slot and the place in its slot of a waiting request
SlotOf(w, c) == CHOOSE p \in Prios : \E i \in 1..Len(w[p]) : w[p][i] = c
PlaceOf(w, c) == CHOOSE i \in 1..Len(w[SlotOf(w, c)]) : w[SlotOf(w, c)][i] = c

\* the request of c is served in this step while the request of d stays queued
ServedBefore(c, d) ==
    /\ c # d
    /\ call[c].pc = "waiting" /\ call[d].pc = "waiting"
    /\ call'[c].pc = "granted" /\ call'[d].pc = "waiting"

\* C15 as stated: of two waiting acquire requests the one served first has the
\* priority value that is not the smaller one, and the earlier one if they are equal.
C15_HigherValueFirst ==
    [][\A c, d \in Callers :
          (ServedBefore(c, d) /\ call[c].op = "acquire" /\ call[d].op = "acquire") =>
              \/ SlotOf(waiting, c) > SlotOf(waiting, d)
              \/ /\ SlotOf(waiting, c) = SlotOf(waiting, d)
                 /\ PlaceOf(waiting, c) < PlaceOf(waiting, d)]_vars

\* C15 as amended: of two waiting requests the one served first has the smaller
\* priority value (0 is served first), and the earlier one if they are equal; a
\* sendCommand request waits in the last slot, behind every acquire of a smaller value.
C15_LowerValueFirst ==
    [][\A c, d \in Callers :
          ServedBefore(c, d) =>
              /\ \/ SlotOf(waiting, c) < SlotOf(waiting, d)
                 \/ /\ SlotOf(waiting, c) = SlotOf(waiting, d)
                    /\ PlaceOf(waiting, c) < PlaceOf(waiting, d)
              /\ call[d].op = "sendCommand" => SlotOf(waiting, d) = PriorityRange - 1]_vars

C15_Witness ==
    \E c, d \in Callers :
        /\ call[c].op = "acquire" /\ call[c].pc = "granted" /\ call[c].behind = 1
        /\ call[d].op = "sendCommand" /\ call[d].pc = "waiting"
        /\ waiting[PriorityRange - 1] = <<d>>

\* C17: no resource is lent to two calls at once: the calls that are using a resource
\* use different ones, each is the owner the pool recorded, and none of these
\* resources is in the available list.
C17_NeverLentTwice ==
    \A c \in Callers :
        Active(call[c]) =>
            /\ owner[call[c].res] = c
            /\ \A i \in 1..Len(available) : available[i] # call[c].res
            /\ \A d \in Callers : (d # c /\ Active(call[d])) => call[d].res # call[c].res

C17_Witness ==
    \E c, d \in Callers :
        /\ call[c].op = "sendCommand" /\ call[c].pc = "sending"
        /\ call[d].op = "acquire" /\ call[d].pc = "holding"
        /\ call[c].res # call[d].res

\* C18: a failed connection attempt adds one to the counter of its own create and
\* leaves the counters of the other creates in flight alone; a create that starts
\* starts at zero; the CONN_FAILED value comes after CreateBound failed attempts of
\* the create that yields it.
C18_CounterPerCreate ==
    [][/\ (Len(createOps') = Len(createOps) /\ createOps' # createOps) =>
              \E i \in 1..Len(createOps) :
                  /\ createOps'[i] = createOps[i] + 1
                  /\ \A j \in 1..Len(createOps) : j # i => createOps'[j] = createOps[j]
       /\ Len(createOps') > Len(createOps) =>
              \A j \in 1..Len(createOps') :
                  createOps'[j] = IF j <= Len(createOps) THEN createOps[j] ELSE 0
       /\ \A r \in Slots : (kind[r] = "none" /\ kind'[r] = "err") =>
              /\ fails'[r] = CreateBound
              /\ \E i \in 1..Len(createOps) : createOps[i] = CreateBound]_vars

C18_Witness ==
    /\ Len(createOps) = 2
    /\ createOps[1] = CreateBound /\ createOps[2] = 0

\* C19: a sendCommand call that has settled has no resource on loan, and none rejects
\* with the TypeError that promisify throws on the CONN_FAILED value (the rejection
\* is the connection error).
C19_ErrorValueReleased ==
    \A c \in Callers :
        (call[c].op = "sendCommand" /\ Settled(call[c]) /\ call[c].res # 0) =>
            /\ owner[call[c].res] # c
            /\ call[c].err # "TypeError"

\* the promise drain() returned is resolved
DrainResolved == drain \in {"clearing", "cleared"}

\* C14: when drain() has resolved the pool holds nothing: no resource on loan, no
\* live connection, size 0; and every call issued since drain started was rejected.
C14_DrainedPoolIsEmpty ==
    DrainResolved =>
        /\ Loans = {}
        /\ \A r \in Slots : kind[r] # "conn"
        /\ PoolSize(PoolState) = 0
        /\ \A c \in Callers : ~Active(call[c]) /\ call[c].pc # "waiting"

\* the keys of the keyspace st that match the pattern
Matching(st, pat) == {k \in Keys : st[k] # "none" /\ Matches(pat, st[k])}

\* C16: the delete script, once started, reaches its end, and at its end the keyspace
\* is the one it started on without the keys that matched the pattern (every other
\* key as it was) and the count it returns is the number of keys that matched.
C16_DeletesExactlyTheMatches ==
    /\ [](spc = "done" =>
            /\ store = [k \in Keys |-> IF k \in Matching(store0, pattern)
                                       THEN "none" ELSE store0[k]]
            /\ deleted = Cardinality(Matching(store0, pattern)))
    /\ (spc = "running") ~> (spc = "done")

C16_Witness ==
    /\ spc = "done"
    /\ deleted > ScanCount
    /\ deleted = Cardinality(Matching(store0, pattern))
    /\ \E k \in Keys : store[k] # "none"

\* C20: every factory.destroy that was called settles.
C20_DestroySettles ==
    \A k \in Clients : (dstate[k] \in {"ending", "failed"}) ~> (dstate[k] = "closed")

====
